---- MODULE Spec2Model ----
(***************************************************************************)
(* Model of klippy/toolhead.py: the MoveQueue lookahead queue and the      *)
(* ToolHead print-time clock, queuing state machine, stall check, flush    *)
(* timer and drip move.  Times are integers, one unit = 1 ms.              *)
(*                                                                         *)
(* Every handler is written as an operator from a state record to a state *)
(* record (the record holds one field per variable); an action applies one *)
(* handler, up to its next reactor suspension point, and commits the       *)
(* record.                                                                 *)
(***************************************************************************)
EXTENDS Integers, Sequences, FiniteSets, TLC

\* ---- program constants (ms) -------------------------------------------
LOOKAHEAD_FLUSH_TIME == 250
MIN_KIN_TIME == 100
MOVE_BATCH_TIME == 500
SDS_CHECK_TIME == 1
DRIP_SEGMENT_TIME == 50
DRIP_TIME == 100
buffer_time_low == 1000
buffer_time_high == 2000
buffer_time_start == 250
move_flush_time == 50
\* 200 mm/s, in units of 0.1 mm/s
square_corner_max_velocity == 2000
\* reactor.NEVER: later than every reachable time; reactor.NOW is 0
NEVER == 1000000
NOW == 0

\* ---- bounds of the model ----------------------------------------------
\* commands (and idle waits) a run starts
MaxSteps == 3

\* ---- inputs -------------------------------------------------------------
\* <<min_move_t, accel_t + cruise_t + decel_t>> of a planned move
MoveTimes == { <<100, 100>>, <<2000, 2200>> }
\* the same, for the homing moves drip_move is given
DripMoveTimes == { <<100, 100>> }
\* the result slot double_array[13] written by mymovie.PyMove()
OkCodes == { 0, 1 }
ErrorCodes == { 0 - 2, 0 - 3, 0 - 4, 0 - 5, 0 - 6 }
NullCode == 0 - 1
MoveCodes == OkCodes \cup ErrorCodes \cup { NullCode }
Positions == { <<1, 1>> }
DwellDelays == { 0, 2500 }
ScanDelays == { 0, 20 }
KinTimes == { 3500 }
TickSteps == { 500 }
\* max_accel and square_corner_velocity of the [printer] config section
ConfigMaxAccel == 50000
ConfigSquareCornerVelocity == 50
ConfigMaxVelocity == 3000
\* variable_max_accel and variable_max_accel_to_decel of [gcode_macro Qmode]
QmodeMaxAccel == 30000
QmodeMaxAccelToDecel == 15000
\* values of the S, P and T parameters of M204
AccelS == { 0 - 15, 0 - 10, 0 - 5, 0, 500, 1000, 1005, 1010, 2000 }
AccelP == { 3000, 5000 }
AccelT == { 2500, 4000 }
\* the parameter sets of an M204 command
ParamValues(k) == IF k = "S" THEN AccelS
                  ELSE IF k = "P" THEN AccelP ELSE AccelT
Gcmds ==
    UNION { { g \in [ D -> AccelS \cup AccelP \cup AccelT ] :
                \A k \in D : g[k] \in ParamValues(k) } :
              D \in SUBSET { "S", "P", "T" } }
\* values of the parameters of SET_VELOCITY_LIMIT
LimitValues(k) ==
    IF k = "VELOCITY" THEN { 2500 }
    ELSE IF k = "ACCEL" THEN { 0, 40000 }
    ELSE IF k = "SQUARE_CORNER_VELOCITY" THEN { 2500 }
    ELSE { 35000 }
LimitParams ==
    { "VELOCITY", "ACCEL", "SQUARE_CORNER_VELOCITY", "ACCEL_TO_DECEL" }
\* the parameter sets of a SET_VELOCITY_LIMIT command
LimitGcmds ==
    UNION { { g \in [ D -> UNION { LimitValues(k) : k \in LimitParams } ] :
                \A k \in D : g[k] \in LimitValues(k) } :
              D \in SUBSET LimitParams }

VARIABLES
    queue,                  \* MoveQueue.queue: [move, callbacks] entries
    junction_flush,         \* MoveQueue.junction_flush
    commanded_pos,          \* <<xyz, e>>
    print_time,
    special_queuing_state,  \* "" (main), "Flushed", "Priming", "Drip"
    need_check_stall,
    flush_timer,            \* waketime of the flush timer
    idle_flush_print_time,
    print_stall,
    drip_completion,        \* "none", "pending", "set"
    kin_flush_delay,
    kin_flush_times,
    last_kin_flush_time,
    last_kin_move_time,
    can_pause,
    now,                    \* reactor.monotonic()
    pc,                     \* where the command greenlet is
    wake,                   \* waketime of the pause it is suspended in
    ctx,                    \* the suspended command's locals
    trapq,                  \* ids of the moves appended to the trapq, in order
    accepted,               \* number of moves move() has queued
    callbacks,              \* lookahead callbacks registered so far
    ticks,                  \* calls made by the last step: clock ticks, rebases
    cb_calls,               \* lookahead callbacks called by the last step
    drip_log,               \* drip segments released by the last step
    steps,                  \* commands started so far
    lastop,                 \* the handler the last step ran
    result                  \* how it ended

\* Velocity and acceleration control.  Accelerations and velocities are
\* integers, one unit = 0.1 mm/s^2 (0.1 mm/s).
VARIABLES
    max_velocity,
    max_accel,
    requested_accel_to_decel,
    max_accel_to_decel,
    square_corner_velocity,
    junction_deviation,     \* [scv2, max_accel]: scv2 * (sqrt(2) - 1) / max_accel
    gcmd,                   \* parameters of the last acceleration command
    respond                 \* how it ended: "ok", "key73", "error"

accel_vars == << max_velocity, max_accel, requested_accel_to_decel,
                 max_accel_to_decel, square_corner_velocity,
                 junction_deviation, gcmd, respond >>

motion_vars == << queue, junction_flush, commanded_pos, print_time,
                  special_queuing_state, need_check_stall, flush_timer,
                  idle_flush_print_time, print_stall, drip_completion,
                  kin_flush_delay, kin_flush_times, last_kin_flush_time,
                  last_kin_move_time, can_pause, now, pc, wake, ctx, trapq,
                  accepted, callbacks, ticks, cb_calls, drip_log, steps,
                  lastop, result >>

vars == << motion_vars, accel_vars >>

Min(a, b) == IF a <= b THEN a ELSE b
Max(a, b) == IF a >= b THEN a ELSE b

RECURSIVE SeqMax(_)
SeqMax(q) == IF q = <<>> THEN 0 ELSE Max(Head(q), SeqMax(Tail(q)))

RECURSIVE MoveTimeSum(_)
MoveTimeSum(moves) ==
    IF moves = <<>> THEN 0 ELSE Head(moves).move_t + MoveTimeSum(Tail(moves))

MoveIds(moves) == [ i \in 1..Len(moves) |-> moves[i].id ]

NoCtx == [ op |-> "none", newpos |-> <<0, 0>>, code |-> 0,
           completion |-> "none",
           mt |-> <<0, 0>>, next |-> 0 ]

\* The state as a record, with the per-step logs cleared.
Cur == [ queue |-> queue, junction_flush |-> junction_flush,
         commanded_pos |-> commanded_pos, print_time |-> print_time,
         special_queuing_state |-> special_queuing_state,
         need_check_stall |-> need_check_stall, flush_timer |-> flush_timer,
         idle_flush_print_time |-> idle_flush_print_time,
         print_stall |-> print_stall, drip_completion |-> drip_completion,
         kin_flush_delay |-> kin_flush_delay,
         kin_flush_times |-> kin_flush_times,
         last_kin_flush_time |-> last_kin_flush_time,
         last_kin_move_time |-> last_kin_move_time, can_pause |-> can_pause,
         now |-> now, pc |-> "run", wake |-> 0, ctx |-> ctx, trapq |-> trapq,
         accepted |-> accepted, callbacks |-> callbacks, ticks |-> <<>>,
         cb_calls |-> <<>>,
         drip_log |-> <<>>, steps |-> steps,
         lastop |-> lastop,
         result |-> "ok" ]

Assign(s) ==
    /\ queue' = s.queue
    /\ junction_flush' = s.junction_flush
    /\ commanded_pos' = s.commanded_pos
    /\ print_time' = s.print_time
    /\ special_queuing_state' = s.special_queuing_state
    /\ need_check_stall' = s.need_check_stall
    /\ flush_timer' = s.flush_timer
    /\ idle_flush_print_time' = s.idle_flush_print_time
    /\ print_stall' = s.print_stall
    /\ drip_completion' = s.drip_completion
    /\ kin_flush_delay' = s.kin_flush_delay
    /\ kin_flush_times' = s.kin_flush_times
    /\ last_kin_flush_time' = s.last_kin_flush_time
    /\ last_kin_move_time' = s.last_kin_move_time
    /\ can_pause' = s.can_pause
    /\ now' = s.now
    /\ pc' = s.pc
    /\ wake' = s.wake
    /\ ctx' = s.ctx
    /\ trapq' = s.trapq
    /\ accepted' = s.accepted
    /\ callbacks' = s.callbacks
    /\ ticks' = s.ticks
    /\ cb_calls' = s.cb_calls
    /\ drip_log' = s.drip_log
    /\ steps' = s.steps
    /\ lastop' = s.lastop
    /\ result' = s.result

\* The step to the state s; s is evaluated once.
Commit(s) == (\E r \in { s } : Assign(r)) /\ UNCHANGED accel_vars

\* F applied to the value of e: the way the handlers below name an
\* intermediate state.
Bind(e, F(_)) == CHOOSE r \in { F(v) : v \in { e } } : TRUE

\* Control has left the running operation: DripModeEndSignal is propagating
\* (pc "drip_raise") or the greenlet is suspended in the drip loop.
Left(s) == s.pc \in { "drip_raise", "drip_wait" }

\* ---- collaborators ------------------------------------------------------
\* mcu.estimated_print_time(eventtime): the host clock and the MCU print
\* clock run at the same rate from the same origin.
estimated_print_time(eventtime) == eventtime

\* mymovie.Py_move_queue_flush_cal(flush_count, lazy): how many moves at the
\* head of the queue are fully planned.  A lazy flush keeps at least the
\* tail; a full flush plans everything.
Py_move_queue_flush_cal(flush_count, lazy) ==
    IF lazy THEN 0..(flush_count - 1) ELSE { flush_count }

\* ---- print time tracking ------------------------------------------------
Tick_entry(kind, from, pt, sg, free, mcu) ==
    [ k |-> kind, from |-> from, pt |-> pt, sg |-> sg, free |-> free,
      mcu |-> mcu ]

\* _update_move_time as a loop that tests print_time < next_print_time
\* before each tick.
RECURSIVE _update_move_time_test_first(_, _)
_update_move_time_test_first(s, next_print_time) ==
    LET lkft == s.last_kin_flush_time
        pt == Min(s.print_time + MOVE_BATCH_TIME, next_print_time)
        sg_flush_time == Max(lkft, pt - s.kin_flush_delay)
        free_time == Max(lkft, sg_flush_time - s.kin_flush_delay)
        mcu_flush_time == Max(lkft, sg_flush_time - move_flush_time)
    IN  IF ~(s.print_time < next_print_time) THEN s
        ELSE Bind([ s EXCEPT !.print_time = pt,
                             !.ticks = Append(@, Tick_entry("tick",
                                                            s.print_time, pt,
                                                            sg_flush_time,
                                                            free_time,
                                                            mcu_flush_time)) ],
                  LAMBDA t : _update_move_time_test_first(t, next_print_time))

RECURSIVE _update_move_time(_, _)
_update_move_time(s, next_print_time) ==
    LET lkft == s.last_kin_flush_time
        pt == Min(s.print_time + MOVE_BATCH_TIME, next_print_time)
        sg_flush_time == Max(lkft, pt - s.kin_flush_delay)
        free_time == Max(lkft, sg_flush_time - s.kin_flush_delay)
        mcu_flush_time == Max(lkft, sg_flush_time - move_flush_time)
    IN  Bind([ s EXCEPT !.print_time = pt,
                        !.ticks = Append(@, Tick_entry("tick", s.print_time,
                                                      pt, sg_flush_time,
                                                      free_time,
                                                      mcu_flush_time)) ],
             LAMBDA t : IF pt >= next_print_time THEN t
                        ELSE _update_move_time(t, next_print_time))

\* _calc_print_time without the test of line 260.
_calc_print_time_unguarded(s) ==
    LET est_print_time == estimated_print_time(s.now)
        kin_time == Max(est_print_time + MIN_KIN_TIME, s.last_kin_flush_time)
                    + s.kin_flush_delay
        min_print_time == Max(est_print_time + buffer_time_start, kin_time)
    IN  [ s EXCEPT !.print_time = min_print_time,
                   !.ticks = Append(@, Tick_entry("sync", s.print_time,
                                                 min_print_time, 0, 0, 0)) ]

\* _calc_print_time with MIN_KIN_TIME added to last_kin_flush_time rather
\* than to est_print_time.
_calc_print_time_min_kin_last(s) ==
    LET est_print_time == estimated_print_time(s.now)
        kin_time == s.last_kin_flush_time + s.kin_flush_delay + MIN_KIN_TIME
        min_print_time == Max(est_print_time + buffer_time_start, kin_time)
    IN  IF min_print_time > s.print_time
        THEN [ s EXCEPT !.print_time = min_print_time,
                        !.ticks = Append(@, Tick_entry("sync", s.print_time,
                                                      min_print_time, 0, 0,
                                                      0)) ]
        ELSE s

_calc_print_time(s) ==
    LET curtime == s.now
        est_print_time == estimated_print_time(curtime)
        kin_time == Max(est_print_time + MIN_KIN_TIME, s.last_kin_flush_time)
                    + s.kin_flush_delay
        min_print_time == Max(est_print_time + buffer_time_start, kin_time)
    IN  IF min_print_time > s.print_time
        THEN [ s EXCEPT !.print_time = min_print_time,
                        !.ticks = Append(@, Tick_entry("sync", s.print_time,
                                                      min_print_time, 0, 0,
                                                      0)) ]
        ELSE s

\* _update_drip_move_time without the completion test of lines 550-551.
RECURSIVE _update_drip_move_time_untested(_, _)
_update_drip_move_time_untested(s, next_print_time) ==
    LET flush_delay == DRIP_TIME + move_flush_time + s.kin_flush_delay
        wait_time == s.print_time - estimated_print_time(s.now) - flush_delay
        npt == Min(s.print_time + DRIP_SEGMENT_TIME, next_print_time)
        seg == [ from |-> s.print_time, to |-> npt,
                 set |-> s.drip_completion = "set" ]
    IN  IF ~(s.print_time < next_print_time)
        THEN [ s EXCEPT !.pc = "drip_done" ]
        ELSE IF wait_time > 0 /\ s.can_pause /\ s.drip_completion # "set"
        THEN [ s EXCEPT !.pc = "drip_wait", !.wake = s.now + wait_time ]
        ELSE Bind(_update_move_time(
                      [ s EXCEPT !.drip_log = Append(@, seg) ], npt),
                  LAMBDA t :
                      _update_drip_move_time_untested(t, next_print_time))

\* ---- drip segments -------------------------------------------------------
\* The loop of _update_drip_move_time, run until it ends (pc "drip_done"),
\* raises DripModeEndSignal (pc "drip_raise") or suspends in
\* drip_completion.wait (pc "drip_wait", with its waketime).
RECURSIVE _update_drip_move_time(_, _)
_update_drip_move_time(s, next_print_time) ==
    LET flush_delay == DRIP_TIME + move_flush_time + s.kin_flush_delay
        curtime == s.now
        est_print_time == estimated_print_time(curtime)
        wait_time == s.print_time - est_print_time - flush_delay
        npt == Min(s.print_time + DRIP_SEGMENT_TIME, next_print_time)
        seg == [ from |-> s.print_time, to |-> npt,
                 set |-> s.drip_completion = "set" ]
    IN  IF ~(s.print_time < next_print_time)
        THEN [ s EXCEPT !.pc = "drip_done" ]
        ELSE IF s.drip_completion = "set"
        THEN [ s EXCEPT !.pc = "drip_raise" ]
        ELSE IF wait_time > 0 /\ s.can_pause
        THEN [ s EXCEPT !.pc = "drip_wait", !.wake = curtime + wait_time ]
        ELSE Bind(_update_move_time(
                      [ s EXCEPT !.drip_log = Append(@, seg) ], npt),
                  LAMBDA t : _update_drip_move_time(t, next_print_time))

\* ---- _process_moves -------------------------------------------------------
\* Lines 266-272 with _calc_print_time called in the Drip state only.
_process_moves_resync_no_rebase(s) ==
    IF s.special_queuing_state = "" THEN s
    ELSE IF s.special_queuing_state # "Drip"
    THEN [ s EXCEPT !.special_queuing_state = "",
                    !.need_check_stall = 0 - 1,
                    !.flush_timer = NOW ]
    ELSE _calc_print_time(s)

\* Lines 266-272: the resync of print_time.
_process_moves_resync(s) ==
    IF s.special_queuing_state = "" THEN s
    ELSE IF s.special_queuing_state # "Drip"
    THEN _calc_print_time([ s EXCEPT !.special_queuing_state = "",
                                     !.need_check_stall = 0 - 1,
                                     !.flush_timer = NOW ])
    ELSE _calc_print_time(s)

\* Lines 266-276: the resync and the append of the batch to the trapq; the
\* next_move_time returned by trapq_append_from_moveq is kept in ctx.next.
\* The lookahead callbacks of the moves are not called.
_process_moves_append(s, moves) ==
    Bind(_process_moves_resync(s),
         LAMBDA s1 : [ s1 EXCEPT !.trapq = @ \o MoveIds(moves),
                                 !.ctx.next = s1.print_time
                                              + MoveTimeSum(moves) ])

\* Lines 300-301, after the drip loop (if any) has run to its end.
_process_moves_finish(s) ==
    [ _update_move_time(s, s.ctx.next) EXCEPT
          !.last_kin_move_time = s.ctx.next ]

\* Lines 298-299: in a state that is still special after the resync, the
\* drip loop runs first; it raises, suspends or ends.
_process_moves_drip(s) ==
    Bind(_update_drip_move_time(s, s.ctx.next),
         LAMBDA s1 : IF Left(s1) THEN s1
                     ELSE _process_moves_finish([ s1 EXCEPT !.pc = s.pc ]))

\* _process_moves(moves), as called by a flush other than the one drip_move
\* transmits its move with.
_process_moves(s, moves) ==
    Bind(_process_moves_append(s, moves),
         LAMBDA s1 :
             Bind(IF s1.special_queuing_state # ""
                  THEN _process_moves_drip(s1)
                  ELSE _process_moves_finish(s1),
                  LAMBDA s2 : IF Left(s2) THEN s2
                              ELSE [ s2 EXCEPT !.ctx.next = s.ctx.next ]))

\* ---- MoveQueue ------------------------------------------------------------
\* flush that removes one move more than it handed to _process_moves.
MoveQueue_flush_skip(s, flush_count) ==
    IF Len(s.queue) = 0 \/ flush_count = 0
    THEN [ s EXCEPT !.junction_flush = LOOKAHEAD_FLUSH_TIME ]
    ELSE [ _process_moves(
               [ s EXCEPT !.junction_flush = LOOKAHEAD_FLUSH_TIME ],
               SubSeq(s.queue, 1, flush_count))
           EXCEPT !.queue = SubSeq(s.queue, flush_count + 2, Len(s.queue)) ]

\* flush(lazy), with the count the planner returned; the moves are removed
\* from the queue once _process_moves has returned.
MoveQueue_flush(s, flush_count) ==
    IF Len(s.queue) = 0 \/ flush_count = 0
    THEN [ s EXCEPT !.junction_flush = LOOKAHEAD_FLUSH_TIME ]
    ELSE Bind(_process_moves(
                  [ s EXCEPT !.junction_flush = LOOKAHEAD_FLUSH_TIME ],
                  SubSeq(s.queue, 1, flush_count)),
              LAMBDA s1 :
                  IF Left(s1) THEN s1
                  ELSE [ s1 EXCEPT !.queue = SubSeq(s.queue, flush_count + 1,
                                                    Len(s.queue)) ])

MoveQueue_reset(s) ==
    [ s EXCEPT !.queue = <<>>, !.junction_flush = LOOKAHEAD_FLUSH_TIME ]

\* add_move that counts the move appended to an empty queue as well.
MoveQueue_add_move_count_first(s, move, lazy_count) ==
    IF s.junction_flush - move.min_move_t <= 0
    THEN MoveQueue_flush(
             [ s EXCEPT !.queue = Append(@, move),
                        !.junction_flush = @ - move.min_move_t ],
             lazy_count)
    ELSE [ s EXCEPT !.queue = Append(@, move),
                    !.junction_flush = @ - move.min_move_t ]

\* add_move(move); lazy_count is what the planner returns if this append
\* triggers a lazy flush.
MoveQueue_add_move(s, move, lazy_count) ==
    IF Len(s.queue) = 0 THEN [ s EXCEPT !.queue = Append(@, move) ]
    ELSE IF s.junction_flush - move.min_move_t <= 0
    THEN MoveQueue_flush(
             [ s EXCEPT !.queue = Append(@, move),
                        !.junction_flush = @ - move.min_move_t ],
             lazy_count)
    ELSE [ s EXCEPT !.queue = Append(@, move),
                    !.junction_flush = @ - move.min_move_t ]

\* Whether add_move of a move of min_move_t t would call flush(lazy=True).
LazyFlushDue(s, t) == Len(s.queue) >= 1 /\ s.junction_flush - t <= 0

\* ---- flushing ---------------------------------------------------------------
\* Lines 305-309 without the update of the flush timer in line 307.
flush_step_generation_reset_keep_timer(s) ==
    [ s EXCEPT !.special_queuing_state = "Flushed",
               !.need_check_stall = 0 - 1,
               !.junction_flush = buffer_time_high,
               !.idle_flush_print_time = 0 ]

\* Lines 305-309.
flush_step_generation_reset(s) ==
    [ s EXCEPT !.special_queuing_state = "Flushed",
               !.need_check_stall = 0 - 1,
               !.flush_timer = NEVER,
               !.junction_flush = buffer_time_high,
               !.idle_flush_print_time = 0 ]

\* Lines 310-312 with the sign of kin_flush_delay in line 311 inverted.
flush_step_generation_time_plus(s) ==
    LET flush_time == Max(s.last_kin_move_time + s.kin_flush_delay,
                          s.print_time + s.kin_flush_delay)
    IN  [ s EXCEPT !.last_kin_flush_time = Max(@, flush_time) ]

\* Lines 310-312 without the term of last_kin_move_time.
flush_step_generation_time_print_only(s) ==
    LET flush_time == s.print_time - s.kin_flush_delay
    IN  [ s EXCEPT !.last_kin_flush_time = Max(@, flush_time) ]

\* Lines 310-312.
flush_step_generation_time(s) ==
    LET flush_time == Max(s.last_kin_move_time + s.kin_flush_delay,
                          s.print_time - s.kin_flush_delay)
    IN  [ s EXCEPT !.last_kin_flush_time = Max(@, flush_time) ]

\* flush_step_generation that leaves print_time where it is (line 313 as
\* _update_move_time(print_time)).
flush_step_generation_no_advance(s) ==
    Bind(MoveQueue_flush(s, Len(s.queue)),
         LAMBDA s1 :
             IF Left(s1) THEN s1
             ELSE Bind(flush_step_generation_time(
                           flush_step_generation_reset(s1)),
                       LAMBDA s2 : _update_move_time(s2, s2.print_time)))

flush_step_generation(s) ==
    Bind(MoveQueue_flush(s, Len(s.queue)),
         LAMBDA s1 :
             IF Left(s1) THEN s1
             ELSE Bind(flush_step_generation_time(
                           flush_step_generation_reset(s1)),
                       LAMBDA s2 :
                           _update_move_time(s2, Max(s2.print_time,
                                                     s2.last_kin_flush_time))))

_flush_lookahead(s) ==
    IF s.special_queuing_state # "" THEN flush_step_generation(s)
    ELSE MoveQueue_flush(s, Len(s.queue))

get_last_move_time(s) ==
    Bind(_flush_lookahead(s),
         LAMBDA s1 : IF ~Left(s1) /\ s1.special_queuing_state # ""
                     THEN _calc_print_time(s1) ELSE s1)

\* ---- stall check ------------------------------------------------------------
\* Lines 325-335 without the reset of idle_flush_print_time.
_check_stall_enter_keep_idle(s) ==
    LET eventtime == s.now
        est_print_time == estimated_print_time(eventtime)
    IN  IF s.special_queuing_state = "" THEN s
        ELSE [ s EXCEPT !.print_stall =
                            IF /\ s.idle_flush_print_time # 0
                               /\ est_print_time < s.idle_flush_print_time
                            THEN @ + 1 ELSE @,
                        !.special_queuing_state = "Priming",
                        !.need_check_stall = 0 - 1,
                        !.flush_timer = eventtime + 100 ]

\* Lines 325-335 with the transition to Priming made in every state.
_check_stall_enter_any_state(s) ==
    LET eventtime == s.now
        est_print_time == estimated_print_time(eventtime)
    IN  [ s EXCEPT !.print_stall =
                       IF /\ s.idle_flush_print_time # 0
                          /\ est_print_time < s.idle_flush_print_time
                       THEN @ + 1 ELSE @,
                   !.idle_flush_print_time = 0,
                   !.special_queuing_state = "Priming",
                   !.need_check_stall = 0 - 1,
                   !.flush_timer = eventtime + 100 ]

\* Lines 325-335 without the update of the flush timer in line 335.
_check_stall_enter_no_timer(s) ==
    LET eventtime == s.now
        est_print_time == estimated_print_time(eventtime)
    IN  IF s.special_queuing_state = "" THEN s
        ELSE [ s EXCEPT !.print_stall =
                            IF /\ s.idle_flush_print_time # 0
                               /\ est_print_time < s.idle_flush_print_time
                            THEN @ + 1 ELSE @,
                        !.idle_flush_print_time = 0,
                        !.special_queuing_state = "Priming",
                        !.need_check_stall = 0 - 1 ]

\* Lines 325-335.
_check_stall_enter(s) ==
    LET eventtime == s.now
        est_print_time == estimated_print_time(eventtime)
    IN  IF s.special_queuing_state = "" THEN s
        ELSE [ s EXCEPT !.print_stall =
                            IF /\ s.idle_flush_print_time # 0
                               /\ est_print_time < s.idle_flush_print_time
                            THEN @ + 1 ELSE @,
                        !.idle_flush_print_time = 0,
                        !.special_queuing_state = "Priming",
                        !.need_check_stall = 0 - 1,
                        !.flush_timer = eventtime + 100 ]

\* The loop of _check_stall pausing a full second whatever stall_time is.
_check_stall_loop_full_second(s, eventtime) ==
    LET est_print_time == estimated_print_time(eventtime)
        stall_time == s.print_time - est_print_time - buffer_time_high
    IN  IF stall_time <= 0
        THEN IF s.special_queuing_state = ""
             THEN [ s EXCEPT !.need_check_stall =
                                 est_print_time + buffer_time_high + 100 ]
             ELSE s
        ELSE IF ~s.can_pause
        THEN [ s EXCEPT !.need_check_stall = NEVER ]
        ELSE [ s EXCEPT !.pc = "stall", !.wake = eventtime + 1000 ]

\* The loop of _check_stall deferring the next check in every state.
_check_stall_loop_always_defer(s, eventtime) ==
    LET est_print_time == estimated_print_time(eventtime)
        stall_time == s.print_time - est_print_time - buffer_time_high
    IN  IF stall_time <= 0
        THEN [ s EXCEPT !.need_check_stall =
                            est_print_time + buffer_time_high + 100 ]
        ELSE IF ~s.can_pause
        THEN [ s EXCEPT !.need_check_stall = NEVER ]
        ELSE [ s EXCEPT !.pc = "stall",
                        !.wake = eventtime + Min(1000, stall_time) ]

\* The loop of _check_stall deferring the next check by five more seconds.
_check_stall_loop_defer_far(s, eventtime) ==
    LET est_print_time == estimated_print_time(eventtime)
        stall_time == s.print_time - est_print_time - buffer_time_high
    IN  IF stall_time <= 0
        THEN IF s.special_queuing_state = ""
             THEN [ s EXCEPT !.need_check_stall =
                                 est_print_time + buffer_time_high + 100
                                 + 5000 ]
             ELSE s
        ELSE IF ~s.can_pause
        THEN [ s EXCEPT !.need_check_stall = NEVER ]
        ELSE [ s EXCEPT !.pc = "stall",
                        !.wake = eventtime + Min(1000, stall_time) ]

\* Lines 337-350: one evaluation of the loop at eventtime; it either returns
\* (pc stays "run") or suspends in reactor.pause (pc "stall").
_check_stall_loop(s, eventtime) ==
    LET est_print_time == estimated_print_time(eventtime)
        buffer_time == s.print_time - est_print_time
        stall_time == buffer_time - buffer_time_high
    IN  IF stall_time <= 0
        THEN IF s.special_queuing_state = ""
             THEN [ s EXCEPT !.need_check_stall =
                                 est_print_time + buffer_time_high + 100 ]
             ELSE s
        ELSE IF ~s.can_pause
        THEN [ s EXCEPT !.need_check_stall = NEVER ]
        ELSE [ s EXCEPT !.pc = "stall",
                        !.wake = eventtime + Min(1000, stall_time) ]

_check_stall(s) ==
    Bind(_check_stall_enter(s), LAMBDA s1 : _check_stall_loop(s1, s1.now))

\* ---- commands, as far as their next suspension point ------------------------
\* The operation op is over: it returned, or raised the error in result, or
\* DripModeEndSignal left it.
Done(s, op) ==
    IF s.pc = "drip_wait" THEN [ s EXCEPT !.lastop = op ]
    ELSE [ s EXCEPT !.pc = "idle", !.wake = 0, !.ctx = NoCtx, !.lastop = op,
                    !.result = IF s.pc = "drip_raise"
                               THEN "DripModeEndSignal" ELSE @ ]

NewMove(s, mt) == [ id |-> s.accepted + 1, min_move_t |-> mt[1],
                    move_t |-> mt[2], cbs |-> <<>> ]

\* Lines 491-494: what move() writes to commanded_pos for an accepted move.
move_commit(s, newpos, code) ==
    IF code = 0 THEN [ s EXCEPT !.commanded_pos = newpos ]
    ELSE [ s EXCEPT !.commanded_pos[2] = newpos[2] ]

\* A move that is refused after commanded_pos was written.
move_reject_late(s, newpos, code) ==
    [ s EXCEPT !.commanded_pos = newpos,
               !.result = IF code = NullCode THEN "null" ELSE "error" ]

\* Lines 495-508: move() raises a command error, or returns on a null move.
move_reject(s, newpos, code) ==
    [ s EXCEPT !.result = IF code = NullCode THEN "null" ELSE "error" ]

\* move(newpos, speed): code is the result of mymovie.PyMove() for it, mt
\* the planned times of the move it built.
move(s, newpos, code, mt, lazy_count) ==
    IF code \in ErrorCodes \cup { NullCode } THEN move_reject(s, newpos, code)
    ELSE Bind(move_commit(s, newpos, code),
              LAMBDA s1 :
                  Bind(MoveQueue_add_move([ s1 EXCEPT !.accepted = @ + 1 ],
                                          NewMove(s1, mt), lazy_count),
                       LAMBDA s2 :
                           IF ~Left(s2) /\ s2.print_time > s2.need_check_stall
                           THEN _check_stall(s2) ELSE s2))

\* dwell(delay)
dwell(s, delay) ==
    Bind(get_last_move_time(s),
         LAMBDA s1 :
             IF Left(s1) THEN s1
             ELSE _check_stall(_update_move_time(s1, s1.print_time
                                                     + Max(0, delay))))

\* Lines 580-582: DripModeEndSignal is caught;
\* trapq_finalize_moves(trapq, NEVER).
drip_finalize(s) ==
    [ s EXCEPT !.ticks = Append(@, Tick_entry("finalize", s.print_time,
                                              s.print_time, 0, NEVER, 0)),
               !.pc = "run",
               !.result = "cancelled" ]

\* drip_move without the except clause of lines 580-582.
drip_move_end_uncaught(s) ==
    IF Left(s) THEN Done(s, "drip_move")
    ELSE Bind(_process_moves_finish([ s EXCEPT !.pc = "run" ]),
              LAMBDA s1 :
                  Done(flush_step_generation([ s1 EXCEPT !.queue = Tail(@) ]),
                       "drip_move"))

\* drip_move after the drip loop returned, raised or suspended (lines 577-584
\* and the end of _process_moves and of MoveQueue.flush).
drip_move_end(s) ==
    IF s.pc = "drip_wait" THEN [ s EXCEPT !.lastop = "drip_move" ]
    ELSE IF s.pc = "drip_raise"
    THEN Done(flush_step_generation(drip_finalize(MoveQueue_reset(s))),
              "drip_move")
    ELSE Bind(_process_moves_finish([ s EXCEPT !.pc = "run" ]),
              LAMBDA s1 :
                  Done(flush_step_generation([ s1 EXCEPT !.queue = Tail(@) ]),
                       "drip_move"))

\* Lines 565-570.
drip_move_enter(s, completion) ==
    [ s EXCEPT !.special_queuing_state = "Drip",
               !.need_check_stall = NEVER,
               !.flush_timer = NEVER,
               !.junction_flush = buffer_time_high,
               !.idle_flush_print_time = 0,
               !.drip_completion = completion ]

\* Lines 577-584: move_queue.flush() in the drip state, as far as the drip
\* loop's first suspension.
drip_move_flush(s) ==
    IF s.queue = <<>>
    THEN Done(flush_step_generation(
                  [ s EXCEPT !.junction_flush = LOOKAHEAD_FLUSH_TIME ]),
              "drip_move")
    ELSE Bind(_process_moves_append(
                  [ s EXCEPT !.junction_flush = LOOKAHEAD_FLUSH_TIME ],
                  s.queue),
              LAMBDA s1 :
                  drip_move_end(_update_drip_move_time(s1, s1.ctx.next)))

\* drip_move that lets the command error of move() through without the
\* flush_step_generation of line 575.
drip_move_body_no_flush(s) ==
    Bind(MoveQueue_flush(s, Len(s.queue)),
         LAMBDA s1 :
             Bind(move(drip_move_enter(s1, s.ctx.completion), s.ctx.newpos,
                       s.ctx.code, s.ctx.mt, 0),
                  LAMBDA s2 :
                      IF s2.result = "error" THEN Done(s2, "drip_move")
                      ELSE drip_move_flush(s2)))

\* drip_move from line 564 on, once the initial dwell has returned.
drip_move_body(s) ==
    Bind(MoveQueue_flush(s, Len(s.queue)),
         LAMBDA s1 :
             IF Left(s1) THEN Done(s1, "drip_move")
             ELSE Bind(move(drip_move_enter(s1, s.ctx.completion),
                            s.ctx.newpos, s.ctx.code, s.ctx.mt, 0),
                       LAMBDA s2 :
                           IF Left(s2) THEN Done(s2, "drip_move")
                           ELSE IF s2.result = "error"
                           THEN Done(flush_step_generation(s2), "drip_move")
                           ELSE drip_move_flush(s2)))

\* What follows a _check_stall that returned or suspended.
after_check_stall(s) ==
    IF s.pc = "stall" THEN [ s EXCEPT !.lastop = s.ctx.op ]
    ELSE IF s.ctx.op = "drip_move" /\ ~Left(s) THEN drip_move_body(s)
    ELSE Done(s, s.ctx.op)

\* The loop of wait_moves testing the queuing state only.
wait_moves_loop_state_only(s, eventtime) ==
    IF s.special_queuing_state = "" /\ s.can_pause
    THEN [ s EXCEPT !.pc = "wait_moves", !.wake = eventtime + 100,
                    !.lastop = "wait_moves",
                    !.ctx = [ NoCtx EXCEPT !.op = "wait_moves" ] ]
    ELSE Done(s, "wait_moves")

\* wait_moves: one evaluation of its loop at eventtime.
wait_moves_loop(s, eventtime) ==
    IF Left(s) THEN Done(s, "wait_moves")
    ELSE IF /\ (s.special_queuing_state = ""
                  \/ s.print_time >= estimated_print_time(eventtime))
            /\ s.can_pause
    THEN [ s EXCEPT !.pc = "wait_moves", !.wake = eventtime + 100,
                    !.lastop = "wait_moves",
                    !.ctx = [ NoCtx EXCEPT !.op = "wait_moves" ] ]
    ELSE Done(s, "wait_moves")

\* _handle_shutdown, the handler of klippy:shutdown.
_handle_shutdown(s) ==
    [ MoveQueue_reset(s) EXCEPT !.can_pause = FALSE ]

\* _flush_handler rescheduling itself at eventtime + buffer_time.
_flush_handler_whole_buffer(s, eventtime) ==
    LET buffer_time == s.print_time - estimated_print_time(eventtime)
    IN  IF buffer_time > buffer_time_low
        THEN [ s EXCEPT !.flush_timer = eventtime + buffer_time ]
        ELSE Bind(flush_step_generation(s),
                  LAMBDA s1 :
                      [ s1 EXCEPT !.idle_flush_print_time =
                                      IF s.print_time # s1.print_time
                                      THEN s1.print_time ELSE @,
                                  !.flush_timer = NEVER ])

\* _flush_handler(eventtime), the flush timer's callback; its return value
\* is the timer's next waketime.  An exception of the flush is caught and
\* shuts the printer down.
_flush_handler(s, eventtime) ==
    LET buffer_time == s.print_time - estimated_print_time(eventtime)
    IN  IF buffer_time > buffer_time_low
        THEN [ s EXCEPT !.flush_timer =
                            eventtime + buffer_time - buffer_time_low ]
        ELSE Bind(flush_step_generation(s),
                  LAMBDA s1 :
                      IF s1.pc = "drip_raise"
                      THEN [ _handle_shutdown(s1) EXCEPT
                                 !.pc = s.pc, !.flush_timer = NEVER ]
                      ELSE [ s1 EXCEPT !.idle_flush_print_time =
                                           IF s.print_time # s1.print_time
                                           THEN s1.print_time ELSE @,
                                       !.flush_timer = NEVER ])

\* Lines 626-627: kin_flush_times.pop(kin_flush_times.index(old_delay)).
PopDelay(times, old_delay) ==
    LET i == CHOOSE j \in 1..Len(times) : times[j] = old_delay
    IN  [ j \in 1..(Len(times) - 1) |->
            IF j < i THEN times[j] ELSE times[j + 1] ]

\* Lines 625-631.
set_scan_time(s, delay, old_delay) ==
    LET popped == IF old_delay # 0 THEN PopDelay(s.kin_flush_times, old_delay)
                  ELSE s.kin_flush_times
        times == IF delay # 0 THEN Append(popped, delay) ELSE popped
    IN  [ s EXCEPT !.kin_flush_times = times,
                   !.kin_flush_delay = Max(SeqMax(times), SDS_CHECK_TIME) ]

\* note_step_generation_scan_time without the flush of line 624.
note_step_generation_scan_time_no_flush(s, delay, old_delay) ==
    set_scan_time(s, delay, old_delay)

note_step_generation_scan_time(s, delay, old_delay) ==
    Bind(flush_step_generation(s),
         LAMBDA s1 : IF Left(s1) THEN s1
                     ELSE set_scan_time(s1, delay, old_delay))

\* Line 635: callback(self.get_last_move_time()).
call_now(s) ==
    [ s EXCEPT !.callbacks = Append(@, [ move |-> 0, fired |-> 1 ]),
               !.cb_calls = Append(@, [ cb |-> Len(s.callbacks) + 1,
                                        arg |-> s.print_time ]) ]

register_lookahead_callback(s) ==
    IF Len(s.queue) = 0
    THEN Bind(get_last_move_time(s),
              LAMBDA s1 : IF Left(s1) THEN s1 ELSE call_now(s1))
    ELSE [ s EXCEPT !.queue[Len(s.queue)].cbs =
                        Append(@, Len(s.callbacks) + 1),
                    !.callbacks =
                        Append(@, [ move |-> s.queue[Len(s.queue)].id,
                                    fired |-> 0 ]) ]

note_kinematic_activity(s, kin_time) ==
    [ s EXCEPT !.last_kin_move_time = Max(@, kin_time) ]

set_position(s, newpos) ==
    Bind(flush_step_generation(s),
         LAMBDA s1 : IF Left(s1) THEN s1
                     ELSE [ s1 EXCEPT !.commanded_pos = newpos ])

\* ---- velocity and acceleration control -------------------------------------
\* int(float(x)): the integer part, towards zero.
IntOfFloat(x) == IF x >= 0 THEN x \div 10 ELSE 0 - ((0 - x) \div 10)

\* gcmd.get_float(name, None, above=0.) raises a command error.
get_float_raises(g, name) == name \in DOMAIN g /\ ~(g[name] > 0)

\* Lines 642-648.
_calc_junction_deviation(scv, accel, requested) ==
    [ junction_deviation |-> [ scv2 |-> scv * scv, max_accel |-> accel ],
      max_accel_to_decel |-> Min(requested, accel) ]

\* Lines 715-732 of cmd_M204: the acceleration it chooses, or the way it
\* ends without one.
cmd_M204_accel(g) ==
    LET accel_S == IF "S" \in DOMAIN g THEN IntOfFloat(g["S"]) ELSE 0 - 1
    IN  IF accel_S # 0 - 1 /\ accel_S <= 100
        THEN [ respond |-> "ok", accel |-> 100 * 10 ]
        ELSE IF get_float_raises(g, "S")
        THEN [ respond |-> "error", accel |-> 0 ]
        ELSE IF "S" \in DOMAIN g
        THEN [ respond |-> "ok", accel |-> g["S"] ]
        ELSE IF get_float_raises(g, "P") \/ get_float_raises(g, "T")
        THEN [ respond |-> "error", accel |-> 0 ]
        ELSE IF "P" \notin DOMAIN g \/ "T" \notin DOMAIN g
        THEN [ respond |-> "key73", accel |-> 0 ]
        ELSE [ respond |-> "ok", accel |-> Min(g["P"], g["T"]) ]

\* ---- the state machine ----------------------------------------------------------
Init ==
    /\ queue = <<>>
    /\ junction_flush = buffer_time_high
    /\ commanded_pos = <<0, 0>>
    /\ print_time = 0
    /\ special_queuing_state = "Flushed"
    /\ need_check_stall = 0 - 1
    /\ flush_timer = NEVER
    /\ idle_flush_print_time = 0
    /\ print_stall = 0
    /\ drip_completion = "none"
    /\ kin_flush_delay = SDS_CHECK_TIME
    /\ kin_flush_times = <<>>
    /\ last_kin_flush_time = 0
    /\ last_kin_move_time = 0
    /\ can_pause \in BOOLEAN
    /\ now = 0
    /\ pc = "idle"
    /\ wake = 0
    /\ ctx = NoCtx
    /\ trapq = <<>>
    /\ accepted = 0
    /\ callbacks = <<>>
    /\ ticks = <<>>
    /\ cb_calls = <<>>
    /\ drip_log = <<>>
    /\ steps = 0
    /\ lastop = "init"
    /\ result = "ok"
    /\ max_velocity = ConfigMaxVelocity
    /\ max_accel = ConfigMaxAccel
    /\ requested_accel_to_decel = ConfigMaxAccel \div 2
    /\ max_accel_to_decel = ConfigMaxAccel \div 2
    /\ square_corner_velocity = ConfigSquareCornerVelocity
    /\ junction_deviation =
           _calc_junction_deviation(ConfigSquareCornerVelocity,
                                    ConfigMaxAccel,
                                    ConfigMaxAccel \div 2).junction_deviation
    /\ gcmd = [ k \in {} |-> 0 ]
    /\ respond = "ok"

\* The state a command starts in.
Start == [ Cur EXCEPT !.steps = @ + 1 ]

\* A gcode command may start when the command greenlet is idle.
Ready == pc = "idle" /\ steps < MaxSteps

Move ==
    /\ Ready
    /\ \E newpos \in Positions, code \in MoveCodes, mt \in MoveTimes :
         \E lazy_count \in
                IF code \in OkCodes /\ LazyFlushDue(Cur, mt[1])
                THEN Py_move_queue_flush_cal(Len(queue) + 1, TRUE)
                ELSE { 0 } :
             Commit(after_check_stall(
                 move([ Start EXCEPT !.ctx = [ NoCtx EXCEPT !.op = "move" ] ],
                      newpos, code, mt, lazy_count)))

Dwell ==
    /\ Ready
    /\ \E delay \in DwellDelays :
         Commit(after_check_stall(
             dwell([ Start EXCEPT !.ctx = [ NoCtx EXCEPT !.op = "dwell" ] ],
                   delay)))

DripMove ==
    /\ Ready
    /\ \E newpos \in Positions, code \in MoveCodes, mt \in DripMoveTimes,
          completion \in { "pending", "set" } :
         Commit(after_check_stall(
             dwell([ Start EXCEPT !.ctx = [ op |-> "drip_move",
                                          newpos |-> newpos, code |-> code,
                                          mt |-> mt, next |-> 0,
                                          completion |-> completion ] ],
                   kin_flush_delay)))

GetLastMoveTime ==
    /\ Ready
    /\ Commit(Done(get_last_move_time(Start), "get_last_move_time"))

FlushStepGeneration ==
    /\ Ready
    /\ Commit(Done(flush_step_generation(Start), "flush_step_generation"))

SetPosition ==
    /\ Ready
    /\ \E newpos \in Positions :
         Commit(Done(set_position(Start, newpos), "set_position"))

WaitMoves ==
    /\ Ready
    /\ Commit(wait_moves_loop(_flush_lookahead(Start), now))

NoteStepGenerationScanTime ==
    /\ Ready
    /\ \E delay \in ScanDelays,
          old_delay \in { 0 } \cup { kin_flush_times[j] :
                                       j \in 1..Len(kin_flush_times) } :
         Commit(Done(note_step_generation_scan_time(Start, delay, old_delay),
                     "note_step_generation_scan_time"))

RegisterLookaheadCallback ==
    /\ Ready
    /\ Commit(Done(register_lookahead_callback(Start),
                   "register_lookahead_callback"))

NoteKinematicActivity ==
    /\ Ready
    /\ \E kin_time \in KinTimes :
         Commit(Done(note_kinematic_activity(Start, kin_time),
                     "note_kinematic_activity"))

\* The reactor runs the flush timer once its waketime is reached, while the
\* command greenlet is idle or suspended in a pause that ends no earlier.
FlushTimer ==
    /\ flush_timer # NEVER
    /\ pc # "idle" => flush_timer <= wake
    /\ LET eventtime == Max(now, flush_timer)
       IN  Commit([ _flush_handler([ Cur EXCEPT !.now = eventtime ],
                                   eventtime)
                    EXCEPT !.pc = pc, !.wake = wake,
                           !.lastop = "_flush_handler" ])

\* reactor.pause returns in _check_stall.
StallResume ==
    /\ pc = "stall"
    /\ flush_timer > wake
    /\ LET eventtime == Max(now, wake)
       IN  Commit(after_check_stall(
               _check_stall_loop([ Cur EXCEPT !.now = eventtime ],
                                 eventtime)))

\* reactor.pause returns in wait_moves.
WaitMovesResume ==
    /\ pc = "wait_moves"
    /\ flush_timer > wake
    /\ LET eventtime == Max(now, wake)
       IN  Commit(wait_moves_loop([ Cur EXCEPT !.now = eventtime ],
                                  eventtime))

\* The homing endstop triggers: the completion of the drip move is set.
DripTrigger ==
    /\ pc = "drip_wait"
    /\ drip_completion = "pending"
    /\ Commit([ Cur EXCEPT !.drip_completion = "set", !.pc = pc,
                           !.wake = wake, !.lastop = "trigger" ])

\* drip_completion.wait returns: the completion is set or the waketime is
\* reached.
DripResume ==
    /\ pc = "drip_wait"
    /\ LET eventtime == IF drip_completion = "set" THEN now
                        ELSE Max(now, wake)
       IN  Commit(drip_move_end(
               _update_drip_move_time([ Cur EXCEPT !.now = eventtime ],
                                      ctx.next)))

\* Time passes between two commands.
Tick ==
    /\ Ready
    /\ \E d \in TickSteps :
         /\ Commit([ Start EXCEPT !.now = now + d, !.pc = "idle",
                                !.lastop = "tick" ])

Next ==
    \/ Move
    \/ Dwell
    \/ DripMove
    \/ GetLastMoveTime
    \/ FlushStepGeneration
    \/ SetPosition
    \/ WaitMoves
    \/ NoteStepGenerationScanTime
    \/ RegisterLookaheadCallback
    \/ NoteKinematicActivity
    \/ FlushTimer
    \/ StallResume
    \/ WaitMovesResume
    \/ DripTrigger
    \/ DripResume
    \/ Tick

Spec == Init /\ [][Next]_vars

\* ---- acceleration commands ------------------------------------------------
\* cmd_M204(gcmd).  The record of the command in the print file of
\* virtual_sdcard is not toolhead state.
CmdM204 ==
    \E g \in Gcmds :
        LET r == cmd_M204_accel(g)
            jd == _calc_junction_deviation(square_corner_velocity, r.accel,
                                           requested_accel_to_decel)
        IN  /\ gcmd' = g
            /\ respond' = r.respond
            /\ IF r.respond = "ok"
               THEN /\ max_accel' = r.accel
                    /\ junction_deviation' = jd.junction_deviation
                    /\ max_accel_to_decel' = jd.max_accel_to_decel
               ELSE UNCHANGED << max_accel, junction_deviation,
                                 max_accel_to_decel >>
            /\ UNCHANGED << max_velocity, requested_accel_to_decel,
                            square_corner_velocity, motion_vars >>

AccelNext == CmdM204

\* The gcode commands that set the acceleration, on an idle toolhead.
AccelSpec == Init /\ [][AccelNext]_vars

\* Line 644 divides by max_accel: ZeroDivisionError.
_calc_junction_deviation_raises(accel) == accel = 0

\* cmd_SET_VELOCITY_LIMIT(gcmd); qmode_flag is custom_macro.qmode_flag and
\* has_section tells whether the config has a [gcode_macro Qmode] section.
\* The four parameters are read, and checked, before any limit is set; a
\* command without parameters ends in respond_info(msg) with msg unbound.
cmd_SET_VELOCITY_LIMIT(g, qmode_flag, has_section) ==
    LET qmode_max_accel == IF has_section THEN QmodeMaxAccel ELSE 0
        qmode_max_accel_to_decel ==
            IF has_section THEN QmodeMaxAccelToDecel ELSE 0
        raises == \/ get_float_raises(g, "VELOCITY")
                  \/ get_float_raises(g, "ACCEL")
                  \/ "SQUARE_CORNER_VELOCITY" \in DOMAIN g
                       /\ g["SQUARE_CORNER_VELOCITY"] < 0
                  \/ get_float_raises(g, "ACCEL_TO_DECEL")
        new_velocity == IF "VELOCITY" \in DOMAIN g THEN g["VELOCITY"]
                        ELSE max_velocity
        new_accel ==
            IF "ACCEL" \notin DOMAIN g THEN max_accel
            ELSE IF qmode_flag # 0 /\ g["ACCEL"] > qmode_max_accel
            THEN qmode_max_accel
            ELSE g["ACCEL"]
        new_scv ==
            IF "SQUARE_CORNER_VELOCITY" \notin DOMAIN g
            THEN square_corner_velocity
            ELSE Min(g["SQUARE_CORNER_VELOCITY"], square_corner_max_velocity)
        new_requested ==
            IF "ACCEL_TO_DECEL" \notin DOMAIN g THEN requested_accel_to_decel
            ELSE IF /\ qmode_flag # 0
                    /\ g["ACCEL_TO_DECEL"] > qmode_max_accel_to_decel
            THEN qmode_max_accel_to_decel
            ELSE g["ACCEL_TO_DECEL"]
        jd == _calc_junction_deviation(new_scv, new_accel, new_requested)
    IN  IF raises
        THEN /\ respond' = "error"
             /\ UNCHANGED << max_velocity, max_accel, square_corner_velocity,
                             requested_accel_to_decel, junction_deviation,
                             max_accel_to_decel >>
        ELSE /\ max_velocity' = new_velocity
             /\ max_accel' = new_accel
             /\ square_corner_velocity' = new_scv
             /\ requested_accel_to_decel' = new_requested
             /\ IF _calc_junction_deviation_raises(new_accel)
                THEN /\ respond' = "error"
                     /\ UNCHANGED << junction_deviation, max_accel_to_decel >>
                ELSE /\ junction_deviation' = jd.junction_deviation
                     /\ max_accel_to_decel' = jd.max_accel_to_decel
                     /\ respond' = IF DOMAIN g = {} THEN "error" ELSE "ok"

CmdSetVelocityLimit ==
    \E g \in LimitGcmds, qmode_flag \in { 0, 1 }, has_section \in BOOLEAN :
        /\ gcmd' = g
        /\ cmd_SET_VELOCITY_LIMIT(g, qmode_flag, has_section)
        /\ UNCHANGED motion_vars

LimitNext == CmdM204 \/ CmdSetVelocityLimit

\* M204 and SET_VELOCITY_LIMIT, on an idle toolhead.
LimitSpec == Init /\ [][LimitNext]_vars

\* ---- re-entrant calls -------------------------------------------------------
\* While drip_move is suspended in drip_completion.wait, another reactor task
\* calls flush_step_generation or get_last_move_time.  The call is taken
\* where it runs to its end without suspending in its turn: the completion
\* is set, so the drip loop it enters raises DripModeEndSignal, which leaves
\* the call.  The suspended drip_move keeps its locals.
Reenter ==
    /\ pc = "drip_wait"
    /\ drip_completion = "set"
    /\ steps < MaxSteps
    /\ \E op \in { "flush_step_generation", "get_last_move_time" } :
         \E r \in { IF op = "flush_step_generation"
                    THEN flush_step_generation(Start)
                    ELSE get_last_move_time(Start) } :
             Commit([ r EXCEPT !.pc = pc, !.wake = wake, !.ctx = ctx,
                               !.lastop = op,
                               !.result = IF r.pc = "drip_raise"
                                          THEN "DripModeEndSignal" ELSE @ ])

ReentrantNext == Next \/ Reenter

\* The toolhead with other reactor tasks calling into it during a drip move.
ReentrantSpec == Init /\ [][ReentrantNext]_vars

\* ---- properties ---------------------------------------------------------------
\* C1: print_time never decreases: no step lowers it, and every tick of
\* _update_move_time and every rebase of _calc_print_time made by a step
\* leaves it greater than or equal to the value it had before.
C1_PrintTimeMonotone ==
    [][ /\ print_time' >= print_time
        /\ \A i \in 1..Len(ticks') : ticks'[i].pt >= ticks'[i].from ]_vars

\* A step that both rebased print_time and advanced it by a tick.
C1_Witness ==
    \E i, j \in 1..Len(ticks) :
        /\ ticks[i].k = "sync" /\ ticks[i].pt > ticks[i].from
        /\ ticks[j].k = "tick" /\ ticks[j].pt > ticks[j].from

\* C2: the moves reach the trapq in the order move() accepted them and none
\* is skipped: the trapq holds moves 1, 2, ... and the queue holds the ones
\* that follow, up to the last accepted (while a drip move is being
\* transmitted the queue still holds it).
C2_TrapqArrivalOrder ==
    /\ \A i \in 1..Len(trapq) : trapq[i] = i
    /\ pc # "drip_wait" =>
         /\ \A i \in 1..Len(queue) : queue[i].id = Len(trapq) + i
         /\ Len(trapq) + Len(queue) = accepted

\* A lazy flush has handed two of three moves over and kept the tail.
C2_Witness == Len(trapq) = 2 /\ Len(queue) = 1 /\ lastop = "move"

\* C3: with pausing enabled _check_stall suspends only while the buffer is
\* above buffer_time_high, for min(1 s, stall_time), and has returned only
\* with print_time - estimated_print_time <= buffer_time_high; with pausing
\* disabled it never suspends and leaves need_check_stall at NEVER.
C3_CheckStall ==
    /\ pc = "stall" => can_pause
    /\ (pc = "stall" /\ lastop # "_flush_handler") =>
         /\ print_time - estimated_print_time(now) > buffer_time_high
         /\ wake = now + Min(1000, print_time - estimated_print_time(now)
                                   - buffer_time_high)
    /\ (pc = "idle" /\ lastop = "dwell" /\ can_pause) =>
         print_time - estimated_print_time(now) <= buffer_time_high
    /\ (pc = "idle" /\ lastop = "dwell" /\ ~can_pause
          /\ print_time - estimated_print_time(now) > buffer_time_high) =>
         need_check_stall = NEVER

\* A dwell has returned after _check_stall paused until the buffer was down
\* to the high-water mark.
C3_Witness ==
    /\ pc = "idle" /\ lastop = "dwell" /\ can_pause /\ now > 0
    /\ print_time - estimated_print_time(now) = buffer_time_high

\* C4: a move() that raises a validation error, or drops a null move, leaves
\* commanded_pos and the lookahead queue as they were (also inside drip_move,
\* for commanded_pos).
C4_RejectedMoveChangesNothing ==
    [][ /\ (lastop' = "move" /\ result' \in { "error", "null" }) =>
              /\ commanded_pos' = commanded_pos
              /\ queue' = queue
              /\ accepted' = accepted
        /\ (lastop' = "drip_move" /\ result' \in { "error", "null" }) =>
              commanded_pos' = commanded_pos ]_vars

\* A move was refused while a move was queued and commanded_pos differed from
\* the refused target.
C4_Witness ==
    /\ lastop = "move" /\ result = "error"
    /\ queue # <<>> /\ commanded_pos \notin Positions

\* C5: every callback attached to a queued move has been invoked once that
\* move has been processed, and every callback registered on an empty queue
\* has been invoked.
C5_CallbackInvokedOnce ==
    pc = "idle" =>
        \A c \in 1..Len(callbacks) :
            (callbacks[c].move = 0
               \/ \E i \in 1..Len(trapq) : trapq[i] = callbacks[c].move)
            => callbacks[c].fired = 1

\* C6: the callbacks attached to move i have fired before move i+1 is
\* appended to the trapq.
C6_CallbackBeforeNextMove ==
    \A c \in 1..Len(callbacks) :
        (/\ callbacks[c].move # 0
         /\ \E i \in 1..Len(trapq) : trapq[i] = callbacks[c].move + 1)
        => callbacks[c].fired >= 1

\* C7: when drip_move has returned or raised, the toolhead has left Drip:
\* Flushed, an empty queue, the flush timer off, stall checking re-enabled.
C7_DripMoveLeavesDrip ==
    (pc = "idle" /\ lastop = "drip_move") =>
        /\ special_queuing_state = "Flushed"
        /\ queue = <<>>
        /\ flush_timer = NEVER
        /\ need_check_stall = 0 - 1

\* A drip_move has raised the command error of its move.
C7_Witness == pc = "idle" /\ lastop = "drip_move" /\ result = "error"

\* C8: every drip segment is released with the completion tested and not
\* set, and advances print_time by at most DRIP_SEGMENT_TIME; a drip move
\* whose completion is set while moves remain ends cancelled, with the queue
\* reset and the trapq finalized up to NEVER.
C8_DripSegments ==
    /\ \A i \in 1..Len(drip_log) :
         /\ ~drip_log[i].set
         /\ drip_log[i].to > drip_log[i].from
         /\ drip_log[i].to - drip_log[i].from <= DRIP_SEGMENT_TIME
    /\ result = "cancelled" =>
         /\ queue = <<>>
         /\ drip_log = <<>>
         /\ \E i \in 1..Len(ticks) :
              ticks[i].k = "finalize" /\ ticks[i].free = NEVER
    /\ (pc = "idle" /\ lastop = "drip_move" /\ result = "ok") =>
         drip_completion # "set"

\* A drip move was cancelled after its first segment had been released.
C8_Witness ==
    /\ pc = "idle" /\ lastop = "drip_move" /\ result = "cancelled"
    /\ steps = 1 /\ now >= 100 /\ print_time = 301

\* The state flush_step_generation is claimed to leave alone the second time.
FlushedState(s) ==
    << s.print_time, s.last_kin_flush_time, s.last_kin_move_time,
       s.special_queuing_state, s.need_check_stall, s.idle_flush_print_time,
       s.junction_flush, s.queue, s.flush_timer >>

\* C9: right after a flush_step_generation, a second call changes none of
\* print_time, last_kin_flush_time, last_kin_move_time, the queuing state,
\* need_check_stall, idle_flush_print_time, junction_flush, the queue and the
\* flush timer.
C9_FlushIdempotent ==
    (pc = "idle" /\ lastop = "flush_step_generation") =>
        FlushedState(flush_step_generation(Cur)) = FlushedState(Cur)

\* A flush_step_generation has flushed a queued move to the trapq.
C9_Witness ==
    /\ pc = "idle" /\ lastop = "flush_step_generation"
    /\ trapq # <<>> /\ last_kin_flush_time > 0

\* C10: last_kin_flush_time and last_kin_move_time never decrease.
C10_KinTimesMonotone ==
    [][ /\ last_kin_move_time' >= last_kin_move_time
        /\ last_kin_flush_time' >= last_kin_flush_time ]_vars

\* The reactor runs a timer whose waketime is reached and resumes a greenlet
\* whose pause has expired.
FairSpec ==
    /\ Spec
    /\ WF_vars(FlushTimer)
    /\ WF_vars(WaitMovesResume)
    /\ WF_vars(StallResume)

\* C11: wait_moves leaves the lookahead queue empty; with pausing enabled it
\* pauses in slices of 100 ms and returns only in a special state with
\* estimated_print_time past print_time, and it does return once started;
\* with pausing disabled it returns at once, without a pause.
C11_WaitMoves ==
    /\ [][ /\ (lastop' = "wait_moves" /\ pc' = "wait_moves") =>
                 /\ can_pause
                 /\ wake' = now' + 100
                 /\ queue' = <<>>
           /\ (lastop' = "wait_moves" /\ pc' = "idle" /\ can_pause) =>
                 /\ special_queuing_state' # ""
                 /\ print_time' < estimated_print_time(now')
                 /\ queue' = <<>>
           /\ (lastop' = "wait_moves" /\ pc' = "idle" /\ ~can_pause) =>
                 /\ pc = "idle"
                 /\ now' = now
                 /\ queue' = <<>> ]_vars
    /\ (pc = "wait_moves") ~> (pc = "idle")

\* A wait_moves has returned after pausing until the queued move was over.
C11_Witness ==
    /\ pc = "idle" /\ lastop = "wait_moves" /\ can_pause
    /\ trapq # <<>> /\ now > 1000

\* C12: print_stall grows only by one, in a stall check that starts in a
\* special state with idle_flush_print_time set and estimated_print_time
\* below it, and that check clears idle_flush_print_time; only the flush
\* timer's handler sets idle_flush_print_time, to the print_time its flush
\* advanced to, and every other flush_step_generation leaves it cleared.
C12_PrintStall ==
    [][ /\ print_stall' # print_stall =>
              /\ print_stall' = print_stall + 1
              /\ special_queuing_state # ""
              /\ idle_flush_print_time # 0
              /\ estimated_print_time(now') < idle_flush_print_time
              /\ idle_flush_print_time' = 0
              /\ lastop' = "move"
        /\ (idle_flush_print_time' # 0
              /\ idle_flush_print_time' # idle_flush_print_time) =>
              /\ lastop' = "_flush_handler"
              /\ print_time' # print_time
              /\ idle_flush_print_time' = print_time'
        /\ lastop' \in { "flush_step_generation", "set_position", "dwell",
                         "note_step_generation_scan_time", "drip_move" } =>
              /\ idle_flush_print_time' = 0
              /\ print_stall' = print_stall ]_vars

\* A move that arrived before the steps of an idle flush were over has been
\* counted as a stall.
C12_Witness ==
    /\ print_stall = 1 /\ lastop = "move" /\ idle_flush_print_time = 0
    /\ estimated_print_time(now) < print_time

C14_M204 ==
    [][ /\ ("S" \in DOMAIN gcmd' /\ gcmd'["S"] <= 100 * 10) =>
              max_accel' = 100 * 10
        /\ ("S" \in DOMAIN gcmd' /\ gcmd'["S"] > 100 * 10) =>
              max_accel' = gcmd'["S"]
        /\ ("S" \notin DOMAIN gcmd' /\ { "P", "T" } \subseteq DOMAIN gcmd') =>
              max_accel' = Min(gcmd'["P"], gcmd'["T"])
        /\ ("S" \notin DOMAIN gcmd' /\ ~({ "P", "T" } \subseteq DOMAIN gcmd')) =>
              respond' = "key73" /\ max_accel' = max_accel ]_accel_vars

\* The print_time _calc_print_time rebases to at the time t.
RebasedPrintTime(t) ==
    Max(print_time,
        Max(estimated_print_time(t) + buffer_time_start,
            Max(estimated_print_time(t) + MIN_KIN_TIME, last_kin_flush_time)
              + kin_flush_delay))

\* C15: a batch processed from Flushed or Priming is appended at the rebased
\* print_time; when move() triggers it the toolhead is left in Main with the
\* flush timer at NOW and the stall check of that move has run.  A batch
\* processed in Drip leaves the state Drip, need_check_stall and the flush
\* timer at NEVER, and is released in drip segments.
C15_ProcessMoves ==
    [][ /\ (/\ pc = "idle" /\ special_queuing_state \in { "Flushed", "Priming" }
            /\ Len(trapq') > Len(trapq) /\ lastop' # "drip_move"
            /\ print_time < RebasedPrintTime(now')) =>
              /\ ticks'[1].k = "sync"
              /\ ticks'[1].pt = RebasedPrintTime(now')
        /\ (/\ lastop' = "move"
            /\ special_queuing_state \in { "Flushed", "Priming" }
            /\ Len(trapq') > Len(trapq)) =>
              /\ special_queuing_state' = ""
              /\ flush_timer' = NOW
              /\ print_time' =
                   RebasedPrintTime(now)
                     + MoveTimeSum(SubSeq(queue, 1, Len(trapq') - Len(trapq)))
              /\ pc' = "stall" => need_check_stall' = 0 - 1
              /\ pc' = "idle" =>
                   need_check_stall' \in
                       { estimated_print_time(now') + buffer_time_high + 100,
                         NEVER }
        /\ pc' = "drip_wait" =>
              /\ special_queuing_state' = "Drip"
              /\ need_check_stall' = NEVER
              /\ flush_timer' = NEVER
              /\ queue' # <<>> /\ Len(trapq') = accepted'
        /\ (/\ lastop' = "drip_move" /\ pc' = "idle"
            /\ accepted' > accepted /\ Len(trapq') = accepted') =>
              drip_log' # <<>> \/ result' = "cancelled" ]_vars

\* The third move has triggered a lazy flush in Priming: the toolhead is in
\* Main with the flush timer at NOW.
C15_Witness ==
    /\ accepted = 3 /\ lastop = "move" /\ trapq # <<>>
    /\ special_queuing_state = "" /\ flush_timer = NOW

\* C16: a stall check that starts in a special state leaves the toolhead in
\* Priming with the flush timer at now + 100 ms and need_check_stall reset
\* (NEVER if the buffer is above buffer_time_high and pausing is disabled);
\* a stall check in Main leaves the state and the flush timer alone and,
\* when it returns with the buffer at or below buffer_time_high, leaves
\* need_check_stall = estimated_print_time + buffer_time_high + 100 ms.
C16_StallCheckStates ==
    [][ /\ (/\ pc = "idle" /\ special_queuing_state # ""
            /\ \/ lastop' = "dwell"
               \/ /\ lastop' = "move" /\ result' = "ok"
                  /\ Len(trapq') = Len(trapq)
                  /\ print_time > need_check_stall) =>
              /\ special_queuing_state' = "Priming"
              /\ flush_timer' = now' + 100
              /\ need_check_stall' \in { 0 - 1, NEVER }
              /\ need_check_stall' = NEVER =>
                   /\ ~can_pause
                   /\ print_time' - estimated_print_time(now')
                        > buffer_time_high
        /\ (/\ pc = "idle" /\ special_queuing_state = ""
            /\ \/ lastop' = "dwell"
               \/ /\ lastop' = "move" /\ result' = "ok"
                  /\ print_time' > need_check_stall) =>
              /\ special_queuing_state' = ""
              /\ flush_timer' = flush_timer
              /\ (/\ pc' = "idle"
                  /\ print_time' - estimated_print_time(now')
                       <= buffer_time_high) =>
                   need_check_stall' =
                       estimated_print_time(now') + buffer_time_high + 100
        /\ (/\ pc = "stall" /\ ctx.op \in { "move", "dwell" }
            /\ lastop' = ctx.op) =>
              /\ special_queuing_state' = special_queuing_state
              /\ flush_timer' = flush_timer
              /\ (pc' = "idle" /\ special_queuing_state = "") =>
                   need_check_stall' =
                       estimated_print_time(now') + buffer_time_high + 100
              /\ (pc' = "idle" /\ special_queuing_state # "") =>
                   need_check_stall' = need_check_stall ]_vars

\* A stall check in Main has paused and then returned with the next check
\* deferred.
C16_Witness ==
    /\ pc = "idle" /\ lastop \in { "move", "dwell" }
    /\ special_queuing_state = "" /\ now > 0 /\ can_pause
    /\ print_time - estimated_print_time(now) = buffer_time_high
    /\ need_check_stall = estimated_print_time(now) + buffer_time_high + 100

\* C17, as claimed: a stall check made in Main (by a command that starts in
\* Main, by a move whose lazy flush has just entered Main, or on return from
\* its pause) while the buffer is at or below buffer_time_high moves the
\* state to Priming and sets the flush timer to now + 100 ms.
C17_MainToPriming ==
    [][ (/\ \/ /\ pc = "idle" /\ special_queuing_state = ""
               /\ \/ lastop' = "dwell"
                  \/ /\ lastop' = "move" /\ result' = "ok"
                     /\ print_time' > need_check_stall
            \/ /\ pc = "idle" /\ special_queuing_state \in { "Flushed", "Priming" }
               /\ lastop' = "move" /\ Len(trapq') > Len(trapq)
            \/ /\ pc = "stall" /\ special_queuing_state = ""
               /\ ctx.op \in { "move", "dwell" } /\ lastop' = ctx.op
         /\ pc' = "idle"
         /\ print_time' - estimated_print_time(now') <= buffer_time_high) =>
            /\ special_queuing_state' = "Priming"
            /\ flush_timer' = now' + 100 ]_vars

\* C17, amended: there is no transition from Main to Priming: a stall check
\* made in Main leaves the state Main and the flush timer as it is; Priming
\* is entered from Flushed only, by the stall check of a move, a dwell or a
\* drip_move, which sets the flush timer to now + 100 ms.
C17_PrimingFromFlushed ==
    [][ /\ special_queuing_state = "" => special_queuing_state' # "Priming"
        /\ (lastop' = "move" /\ Len(trapq') > Len(trapq)) =>
              special_queuing_state' = "" /\ flush_timer' \in { NOW, flush_timer }
        /\ (/\ pc = "stall" /\ special_queuing_state = ""
            /\ ctx.op \in { "move", "dwell" } /\ lastop' = ctx.op) =>
              special_queuing_state' = "" /\ flush_timer' = flush_timer
        /\ (/\ special_queuing_state' = "Priming"
            /\ special_queuing_state # "Priming") =>
              /\ special_queuing_state = "Flushed"
              /\ flush_timer' = now' + 100
              /\ lastop' \in { "move", "dwell", "drip_move" } ]_vars

\* In Main a move has run its stall check with the buffer at or below
\* buffer_time_high, and the toolhead is still in Main.
C17_Witness ==
    /\ pc = "idle" /\ lastop = "move" /\ special_queuing_state = ""
    /\ accepted = 3 /\ Len(trapq) >= 1
    /\ print_time - estimated_print_time(now) <= buffer_time_high
    /\ need_check_stall = estimated_print_time(now) + buffer_time_high + 100

\* The toolhead state the flush timer's handler leaves alone when it only
\* reschedules itself.
HandlerKeeps ==
    << queue, junction_flush, commanded_pos, print_time,
       special_queuing_state, need_check_stall, idle_flush_print_time,
       print_stall, drip_completion, kin_flush_delay, kin_flush_times,
       last_kin_flush_time, last_kin_move_time, can_pause, trapq, pc, wake,
       ctx >>

UpdateDeltas == { 0, 1, MOVE_BATCH_TIME, MOVE_BATCH_TIME + 1, 1200 }

\* The ticks of a call _update_move_time(print_time + d) in the current
\* state: they start at print_time, follow one another, advance by at most
\* MOVE_BATCH_TIME and end at the target.
TicksReach(d) ==
    LET r == _update_move_time(Cur, print_time + d)
    IN  /\ r.print_time = print_time + d
        /\ \A i \in 1..Len(r.ticks) :
             /\ r.ticks[i].k = "tick"
             /\ r.ticks[i].from = IF i = 1 THEN print_time
                                  ELSE r.ticks[i - 1].pt
             /\ r.ticks[i].pt - r.ticks[i].from <= MOVE_BATCH_TIME
             /\ r.ticks[i].pt >= r.ticks[i].from
        /\ d > 0 => r.ticks[Len(r.ticks)].pt = print_time + d

\* C20, as claimed: _update_move_time(target) reaches the target in ticks of
\* at most MOVE_BATCH_TIME, and with print_time >= target on entry it makes
\* no tick: no call of the step generators, of trapq_finalize_moves, of the
\* extruder or of the MCUs.
C20_NoTickAtTarget ==
    /\ \A d \in UpdateDeltas : TicksReach(d)
    /\ _update_move_time(Cur, print_time).ticks = <<>>
    /\ \A i \in 1..Len(ticks) :
         ticks[i].k = "tick" => ticks[i].pt > ticks[i].from

\* C20, amended: _update_move_time(target) reaches the target in ticks of
\* at most MOVE_BATCH_TIME and always makes at least one tick: with
\* print_time = target on entry it leaves print_time unchanged and makes
\* one round of calls.
C20_AtLeastOneTick ==
    /\ \A d \in UpdateDeltas :
         /\ TicksReach(d)
         /\ Len(_update_move_time(Cur, print_time + d).ticks) =
              IF d = 0 THEN 1
              ELSE (d + MOVE_BATCH_TIME - 1) \div MOVE_BATCH_TIME
    /\ \A i \in 1..Len(ticks) :
         ticks[i].k = "tick" =>
             /\ ticks[i].pt >= ticks[i].from
             /\ ticks[i].pt - ticks[i].from <= MOVE_BATCH_TIME
    /\ lastop \in { "flush_step_generation", "set_position" } =>
         ticks # <<>> /\ ticks[Len(ticks)].k = "tick"

\* A flush_step_generation with print_time already at its target has made
\* one tick that did not advance print_time.
C20_Witness ==
    /\ lastop = "flush_step_generation" /\ Len(ticks) = 1
    /\ ticks[1].k = "tick" /\ ticks[1].pt = ticks[1].from
    /\ print_time > 0

\* The bound of a rebase as the claim states it.
ClaimedRebaseBound ==
    Max(estimated_print_time(now) + buffer_time_start,
        last_kin_flush_time + kin_flush_delay + MIN_KIN_TIME)

\* The bound of a rebase: MIN_KIN_TIME is a lead over the estimated print
\* time, not over last_kin_flush_time.
RebaseBound ==
    Max(estimated_print_time(now) + buffer_time_start,
        Max(estimated_print_time(now) + MIN_KIN_TIME + kin_flush_delay,
            last_kin_flush_time + kin_flush_delay))

\* _calc_print_time, called in the current state, leaves print_time at or
\* above bound: below it, it sets print_time to it and emits
\* toolhead:sync_print_time; otherwise it changes nothing and emits nothing.
RebasesTo(bound) ==
    LET r == _calc_print_time(Cur)
    IN  /\ r.print_time >= bound
        /\ print_time < bound =>
             /\ r.print_time = bound
             /\ r.ticks = << Tick_entry("sync", print_time, bound, 0, 0, 0) >>
        /\ print_time >= bound =>
             r.print_time = print_time /\ r.ticks = <<>>

\* C21, as claimed: _calc_print_time rebases print_time to
\* max(estimated_print_time + buffer_time_start,
\*     last_kin_flush_time + kin_flush_delay + MIN_KIN_TIME).
C21_RebaseAsClaimed ==
    /\ (pc = "idle" /\ special_queuing_state # "") =>
         RebasesTo(ClaimedRebaseBound)
    /\ lastop = "get_last_move_time" => print_time >= ClaimedRebaseBound

\* C21, amended: _calc_print_time rebases print_time to
\* max(estimated_print_time + buffer_time_start,
\*     max(estimated_print_time + MIN_KIN_TIME, last_kin_flush_time)
\*       + kin_flush_delay):
\* below that bound print_time is set to it and toolhead:sync_print_time is
\* emitted, otherwise print_time is unchanged and no event is emitted.
C21_Rebase ==
    /\ (pc = "idle" /\ special_queuing_state # "") => RebasesTo(RebaseBound)
    /\ lastop = "get_last_move_time" =>
         /\ print_time >= RebaseBound
         /\ (ticks # <<>> /\ ticks[Len(ticks)].k = "sync") =>
              /\ ticks[Len(ticks)].from < RebaseBound
              /\ ticks[Len(ticks)].pt = RebaseBound
              /\ print_time = RebaseBound

\* get_last_move_time has rebased print_time to
\* last_kin_flush_time + kin_flush_delay, past the lead over the estimated
\* print time.
C21_Witness ==
    /\ lastop = "get_last_move_time"
    /\ ticks # <<>> /\ ticks[Len(ticks)].k = "sync"
    /\ print_time = last_kin_flush_time + kin_flush_delay
    /\ print_time > estimated_print_time(now) + buffer_time_start

\* The step is a move() that appended a move to the lookahead queue.
Appended == lastop' = "move" /\ accepted' = accepted + 1

\* The move the step appended (a lazy flush keeps the tail).
AppendedMove == queue'[Len(queue')]

\* What the step leaves in the queue is a tail of the queue with the move
\* appended, and the trapq has received the moves before it.
LazyFlushed ==
    LET q == Append(queue, AppendedMove)
        n == Len(q) - Len(queue')
    IN  /\ n \in 0..(Len(q) - 1)
        /\ queue' = SubSeq(q, n + 1, Len(q))
        /\ trapq' = trapq \o MoveIds(SubSeq(q, 1, n))
        /\ junction_flush' = LOOKAHEAD_FLUSH_TIME

\* Every flush resets the countdown, whatever the planner returns and also on
\* an empty queue; a command that flushes the lookahead queue in Main leaves
\* it reset.
FlushResets ==
    /\ pc = "idle" =>
         \A n \in 0..Len(queue) :
             MoveQueue_flush(Cur, n).junction_flush = LOOKAHEAD_FLUSH_TIME
    /\ (pc = "idle" /\ special_queuing_state = ""
          /\ lastop' \in { "get_last_move_time", "wait_moves" }) =>
         junction_flush' = LOOKAHEAD_FLUSH_TIME /\ queue' = <<>>

\* C22, as claimed: every append subtracts the move's min_move_t from the
\* countdown junction_flush and flushes lazily once the countdown is <= 0;
\* every flush resets the countdown to LOOKAHEAD_FLUSH_TIME.
C22_EveryAppendCounts ==
    [][ /\ Appended =>
              IF junction_flush - AppendedMove.min_move_t <= 0
              THEN junction_flush' = LOOKAHEAD_FLUSH_TIME
              ELSE junction_flush' = junction_flush - AppendedMove.min_move_t
        /\ FlushResets ]_vars

\* C22, amended: an append to an empty queue leaves the countdown alone and
\* flushes nothing; every other append subtracts the move's min_move_t from
\* the countdown and flushes lazily once the countdown is <= 0; every flush
\* resets the countdown to LOOKAHEAD_FLUSH_TIME.
C22_AppendCountdown ==
    [][ /\ (Appended /\ queue = <<>>) =>
              /\ junction_flush' = junction_flush
              /\ Len(queue') = 1
              /\ trapq' = trapq
        /\ (Appended /\ queue # <<>>) =>
              IF junction_flush - AppendedMove.min_move_t <= 0
              THEN LazyFlushed
              ELSE /\ junction_flush' =
                        junction_flush - AppendedMove.min_move_t
                   /\ queue' = Append(queue, AppendedMove)
                   /\ trapq' = trapq
        /\ FlushResets ]_vars

\* The second move has run the countdown down to zero and triggered a lazy
\* flush.
C22_Witness ==
    /\ lastop = "move" /\ result = "ok" /\ accepted = 2
    /\ junction_flush = LOOKAHEAD_FLUSH_TIME
    /\ queue # <<>> /\ queue[Len(queue)].min_move_t = buffer_time_high

\* C23: outside Drip no move stays in the lookahead queue with the flush
\* timer disabled, and every accepted move is eventually handed to
\* _process_moves, by a lazy flush, by the flush of a command or by the flush
\* timer: again and again the trapq holds every move accepted so far.
C23_QueuedMovesProcessed ==
    /\ []((queue # <<>> /\ special_queuing_state # "Drip") =>
             flush_timer # NEVER)
    /\ []<>(Len(trapq) = accepted)

\* The flush timer, armed by the stall check of a move queued in Flushed,
\* has flushed that move once its 100 ms were over.
C23_Witness ==
    /\ lastop = "_flush_handler" /\ flush_timer = NEVER
    /\ steps = 1 /\ accepted = 1 /\ trapq = << 1 >> /\ queue = <<>>
    /\ now = 100

\* C24: while no toolhead operation is in progress, Flushed means an empty
\* lookahead queue, the flush timer disabled and need_check_stall = -1, and
\* Main or Priming means the flush timer is armed.
C24_IdleStates ==
    pc = "idle" =>
        /\ special_queuing_state = "Flushed" =>
             /\ queue = <<>>
             /\ flush_timer = NEVER
             /\ need_check_stall = 0 - 1
        /\ special_queuing_state \in { "", "Priming" } =>
             flush_timer # NEVER

\* A move has returned from the pause of its stall check after the flush
\* timer flushed it: the toolhead is idle in Flushed with the move in the
\* trapq.
C24_Witness ==
    /\ pc = "idle" /\ lastop = "move" /\ special_queuing_state = "Flushed"
    /\ accepted >= 1 /\ Len(trapq) = accepted /\ now > 0

\* How far print_time is ahead of the MCU.
Lead == print_time - estimated_print_time(now)

\* C25, as claimed: with pausing enabled, whenever move() or dwell() has
\* returned outside Drip, print_time is at most buffer_time_high + 100 ms
\* ahead of the estimated print time.
C25_LeadOnReturn ==
    (/\ pc = "idle" /\ lastop \in { "move", "dwell" }
     /\ result \in { "ok", "null" }
     /\ can_pause /\ special_queuing_state # "Drip") =>
        Lead <= buffer_time_high + 100

\* C25, amended: with pausing enabled, whenever dwell() has returned, or
\* move() has returned after queuing its move, outside Drip, print_time is at
\* most buffer_time_high + 100 ms ahead of the estimated print time; a move()
\* that returns on a null move runs no stall check and leaves the lead as it
\* found it.
C25_LeadOfQueuedMove ==
    /\ (/\ pc = "idle" /\ lastop \in { "move", "dwell" } /\ result = "ok"
        /\ can_pause /\ special_queuing_state # "Drip") =>
           Lead <= buffer_time_high + 100
    /\ (pc = "idle" /\ lastop = "move" /\ result = "null") =>
           ticks = <<>>

\* In Main the third move has been queued without a flush, so with
\* print_time still at or below need_check_stall, and has returned without a
\* stall check.
C25_Witness ==
    /\ pc = "idle" /\ lastop = "move" /\ result = "ok" /\ can_pause
    /\ special_queuing_state = "" /\ accepted = 3
    /\ Len(queue) = 2 /\ junction_flush = LOOKAHEAD_FLUSH_TIME - 100
    /\ print_time <= need_check_stall /\ Lead > 0

\* The tick entries of a log of calls.
IsTick(e) == e.k = "tick"
TicksOf(log) == SelectSeq(log, IsTick)

\* The least flush time _update_move_time can pass to the step generators
\* from the current state on.
SgFloor == Max(last_kin_flush_time, print_time - kin_flush_delay)

\* C26: the flush times passed to the step generators never decrease, also
\* across a change of kin_flush_delay.  Every step keeps the times of its
\* ticks in order, between the floor of the state it starts in and the floor
\* of the state it ends in, and no step lowers the floor: so each flush time
\* is at or above all earlier ones.
C26_SgFlushTimesMonotone ==
    [][ LET t == TicksOf(ticks')
        IN  /\ SgFloor' >= SgFloor
            /\ \A i \in 1..Len(t) :
                 /\ t[i].sg >= SgFloor
                 /\ t[i].sg <= SgFloor'
                 /\ i > 1 => t[i].sg >= t[i - 1].sg ]_vars

\* After kin_flush_delay was raised to 20 ms a dwell has advanced the flush
\* time of the step generators.
C26_Witness ==
    /\ lastop = "dwell" /\ kin_flush_delay = 20 /\ steps = 3
    /\ Len(TicksOf(ticks)) >= 2
    /\ TicksOf(ticks)[Len(TicksOf(ticks))].sg = print_time - kin_flush_delay
    /\ print_time - kin_flush_delay > last_kin_flush_time

\* C27, as claimed: in every tick of _update_move_time the flush time of the
\* step generators and that of the MCUs are at most print_time at that tick,
\* and the trapq is finalized no further than the step generators' flush
\* time.
C27_FlushTimesWithinPrintTime ==
    \A i \in 1..Len(ticks) :
        ticks[i].k = "tick" =>
            /\ ticks[i].sg <= ticks[i].pt
            /\ ticks[i].mcu <= ticks[i].pt
            /\ ticks[i].free <= ticks[i].sg

\* C27, amended: in every tick the trapq is finalized, and the MCUs are
\* flushed, no further than the step generators' flush time, and that time
\* is at most max(print_time at the tick, last_kin_flush_time).  It exceeds
\* print_time only in a tick of a full MOVE_BATCH_TIME that another tick
\* follows, while flush_step_generation advances print_time to
\* last_kin_flush_time; print_time is never left below last_kin_flush_time.
C27_FlushTimesBounded ==
    /\ print_time >= last_kin_flush_time
    /\ \A i \in 1..Len(ticks) :
         ticks[i].k = "tick" =>
             /\ ticks[i].free <= ticks[i].sg
             /\ ticks[i].mcu <= ticks[i].sg
             /\ ticks[i].sg <= Max(ticks[i].pt, last_kin_flush_time)
             /\ ticks[i].sg > ticks[i].pt =>
                  /\ ticks[i].pt - ticks[i].from = MOVE_BATCH_TIME
                  /\ i < Len(ticks)
                  /\ ticks[i + 1].k = "tick"
                  /\ ticks[i + 1].from = ticks[i].pt

\* A flush_step_generation after note_kinematic_activity has passed
\* last_kin_flush_time to the step generators in a tick in which print_time
\* was still below it.
C27_Witness ==
    /\ lastop = "flush_step_generation"
    /\ ticks[1].k = "tick" /\ ticks[1].sg = last_kin_flush_time
    /\ ticks[1].pt < ticks[1].sg
    /\ ticks[Len(ticks)].sg <= print_time

\* C28: no move is appended to the trapq twice, also when another reactor
\* task flushes while drip_move is suspended in the drip loop with its move
\* still in the queue.
C28_ProcessedOnce ==
    \A i, j \in 1..Len(trapq) : trapq[i] = trapq[j] => i = j

\* C29: after any sequence of M204 and SET_VELOCITY_LIMIT commands max_accel
\* is strictly positive, so that the junction deviation is defined, and
\* max_accel_to_decel = min(requested_accel_to_decel, max_accel).
C29_MaxAccelPositive ==
    /\ max_accel > 0
    /\ junction_deviation.max_accel = max_accel
    /\ max_accel_to_decel = Min(requested_accel_to_decel, max_accel)

====
